---- MODULE Spec2Model ----
(***************************************************************************)
(* Model of the FreeLLM client library (src/freellm_integration):          *)
(*   - ConversationHistory (models.py): bounded rolling message window     *)
(*   - FreeLLMClient (client.py): chat / chat_with_context, the           *)
(*     connection handle (_client), sessions (__aenter__/__aexit__),       *)
(*     close(), request building and error classification.                *)
(*                                                                         *)
(* Text is a sequence of tokens; string concatenation is \o.  Optional     *)
(* values are None (the empty tuple) or Some(v) (a one-element tuple).     *)
(* Temperatures are counted in tenths (0.0 -> 0, 2.0 -> 20).               *)
(***************************************************************************)
EXTENDS Integers, Sequences, FiniteSets, TLC

\* The fields of the records of the model.  TLC orders the fields of a record
\* by the first occurrence of their names; every record below lists its
\* fields in this order, so that a record is built in its normal form.
RecordFields ==
  [after : {}, args : {}, before : {}, body : {}, chat_response : {}, conn : {},
   content : {},
   ctx : {}, ephemeral : {}, event : {}, form : {}, jtype : {}, jval : {},
   kind : {}, max_tokens : {}, message : {}, model : {}, obj : {}, orig : {},
   outcome : {}, payload : {}, req : {}, response : {}, response_data : {},
   role : {}, save : {}, sent : {}, status : {}, status_code : {},
   temperature : {}, type : {}]

\* ------------------------------------------------------------------ bounds
MaxHist == 2
MaxRetries == 1
MaxCalls == 2
MaxSlots == 2
MaxAdds == 2
MaxDepth == 2
MaxEnters == 2

\* ------------------------------------------------------- program constants
TempMin == 0
TempMax == 20
MinTokens == 0
ErrorStatus == 400
DefaultMaxHistory == 10
DefaultMaxRetries == 3

\* ------------------------------------------------------------ basic values
None == <<>>
Some(v) == <<v>>
IsNone(o) == Len(o) = 0
Val(o) == o[1]

EmptyDict == [k \in {} |-> <<>>]

JStr(t) == [jtype |-> "str", jval |-> t]
JNum(t) == [jtype |-> "num", jval |-> t]

\* ------------------------------------------------- models.py: ChatMessage
allowed_roles == {"user", "assistant", "system"}

validate_role_Any(v) == TRUE

validate_role(v) == v \in allowed_roles

ChatMessage(role, content) == [content |-> content, role |-> role]

\* ----------------------------------------- models.py: ConversationHistory
\* Python s[i:] for any integer i.
PySliceFrom(s, i) ==
  LET start == IF i < 0
               THEN (IF Len(s) + i > 0 THEN Len(s) + i ELSE 0)
               ELSE (IF i < Len(s) THEN i ELSE Len(s))
  IN SubSeq(s, start + 1, Len(s))

\* "max_history: int = Field(default=10, ...)": any integer is accepted, the
\* field has no ge/gt constraint and no validator.
ValidMaxHistory(n) == n \in Int

\* add_message after the role passed validation: append, then truncate.
add_message(msgs, cap, role, content) ==
  LET grown == Append(msgs, ChatMessage(role, content))
  IN IF Len(grown) > cap THEN PySliceFrom(grown, 0 - cap) ELSE grown

RenderLine(msg) == <<msg.role, ": ">> \o msg.content

RECURSIVE JoinLines(_)
JoinLines(msgs) ==
  IF Len(msgs) = 0 THEN <<>>
  ELSE IF Len(msgs) = 1 THEN RenderLine(msgs[1])
  ELSE RenderLine(msgs[1]) \o <<"\n">> \o JoinLines(Tail(msgs))

get_context(msgs) == JoinLines(msgs)

clear_KeepLast(msgs) == IF Len(msgs) > 0 THEN <<msgs[Len(msgs)]>> ELSE <<>>

\* clear: "self.messages = []".
clear(msgs) == <<>>

\* ----------------------------------------------- models.py: ChatRequest
ValidTemperature_ExclusiveMax(t) ==
  IsNone(t) \/ (Val(t) >= TempMin /\ Val(t) < TempMax)

\* temperature: Optional[float], ge=0.0, le=2.0 (and validate_temperature).
ValidTemperature(t) == IsNone(t) \/ (Val(t) >= TempMin /\ Val(t) <= TempMax)

\* max_tokens: Optional[int], gt=0.
ValidMaxTokens(n) == IsNone(n) \/ Val(n) > MinTokens

\* ChatRequest(...) constructs without raising.
ChatRequestValid(a) == ValidTemperature(a.temperature) /\ ValidMaxTokens(a.max_tokens)

\* --------------------------------- client.py: _build_request_data
\* "if request.model:" is a truthiness test: None and "" are both falsy.
ModelIncluded(m) == ~IsNone(m) /\ Val(m) # <<>>

TemperatureIncluded(t) == ~IsNone(t)

MaxTokensIncluded(n) == ~IsNone(n)

PayloadKeys(a) ==
  {"message"}
    \cup (IF ModelIncluded(a.model) THEN {"model"} ELSE {})
    \cup (IF TemperatureIncluded(a.temperature) THEN {"temperature"} ELSE {})
    \cup (IF MaxTokensIncluded(a.max_tokens) THEN {"max_tokens"} ELSE {})

_build_request_data(a) ==
  [k \in PayloadKeys(a) |->
     CASE k = "message" -> a.message
       [] k = "model" -> Val(a.model)
       [] k = "temperature" -> Val(a.temperature)
       [] k = "max_tokens" -> Val(a.max_tokens)]

\* ------------------------------------------- the HTTP response (httpx)
\* response.json() succeeds iff the body is a JSON document.
JsonParseable(body) == body.form \in {"object", "array"}

\* response.text is truthy iff the body is not empty.
HasText(body) == body.form # "empty"

\* ------------------------------------- client.py: _parse_response
KeyOrder == <<"response", "message", "model", "usage", "metadata", "extra">>

RECURSIVE DictItems(_, _)
DictItems(obj, i) ==
  IF i > Len(KeyOrder) THEN <<>>
  ELSE IF KeyOrder[i] \in DOMAIN obj
       THEN <<"'", KeyOrder[i], "': ">> \o obj[KeyOrder[i]].jval \o <<", ">> \o DictItems(obj, i + 1)
       ELSE DictItems(obj, i + 1)

\* str(response_data) of a dict.
PyStr(obj) == <<"{">> \o DictItems(obj, 1) \o <<"}">>

\* dict.get(key) with default None.
DictGet(obj, k) == IF k \in DOMAIN obj THEN Some(obj[k]) ELSE None

\* response_data.get("response", response_data.get("message", str(response_data)))
ResponseField(obj) ==
  IF "response" \in DOMAIN obj THEN obj["response"]
  ELSE IF "message" \in DOMAIN obj THEN obj["message"]
  ELSE JStr(PyStr(obj))

\* The keyword arguments of ChatResponse(...): only these four are passed, so
\* "extra = allow" has nothing else to keep.
ChatResponseFields == {"response", "model", "usage", "metadata"}

_parse_response(obj) ==
  [k \in ChatResponseFields |->
     IF k = "response" THEN Some(ResponseField(obj)) ELSE DictGet(obj, k)]

\* models.py ChatResponse: response: str; model: Optional[str];
\* usage: Optional[Dict[str, int]]; metadata: Optional[Dict[str, Any]].
OptionalOfType(o, t) == IsNone(o) \/ Val(o).jtype \in {t, "null"}

ChatResponseValid(obj) ==
  /\ ResponseField(obj).jtype = "str"
  /\ OptionalOfType(DictGet(obj, "model"), "str")
  /\ OptionalOfType(DictGet(obj, "usage"), "obj")
  /\ OptionalOfType(DictGet(obj, "metadata"), "obj")

\* ------------------------------------------------- client.py: chat, try block
NoBody == [form |-> "empty", obj |-> EmptyDict]

NoEvent == [body |-> NoBody, kind |-> "none", status |-> 0]

Exc(type, status_code, response_data) ==
  [response_data |-> response_data, status_code |-> status_code, type |-> type]

\* Lines 184-196: the branch taken when response.status_code >= 400.  The
\* message is built under its own try/except; the response_data argument
\* calls response.json() again, outside it, whenever response.text is truthy.
HttpErrorRaise(status, body) ==
  IF HasText(body)
  THEN IF JsonParseable(body)
       THEN Exc("FreeLLMAPIError", Some(status), Some(body))
       ELSE Exc("JSONDecodeError", None, None)
  ELSE Exc("FreeLLMAPIError", Some(status), None)

\* Lines 198-201: response.json() and _parse_response on a non-error status.
SuccessRaise(body) ==
  IF ~JsonParseable(body) THEN Exc("JSONDecodeError", None, None)
  ELSE IF body.form = "array" THEN Exc("AttributeError", None, None)
  ELSE IF ~ChatResponseValid(body.obj) THEN Exc("pydantic.ValidationError", None, None)
  ELSE Exc("none", None, None)

IsHttpError(status) == status >= ErrorStatus

\* What the body of the try block (lines 180-208) raises for a network event.
Raised(ev) ==
  CASE ev.kind = "timeout" -> Exc("httpx.TimeoutException", None, None)
    [] ev.kind = "connect_error" -> Exc("httpx.ConnectError", None, None)
    [] ev.kind = "transport_error" -> Exc("httpx.ReadError", None, None)
    [] ev.kind = "response" ->
         IF IsHttpError(ev.status) THEN HttpErrorRaise(ev.status, ev.body)
         ELSE SuccessRaise(ev.body)

Handler_NoCatchAll(exc) ==
  CASE exc.type = "httpx.TimeoutException" -> Exc("FreeLLMTimeoutError", None, None)
    [] exc.type = "httpx.ConnectError" -> Exc("FreeLLMConnectionError", None, None)
    [] OTHER -> exc

\* Lines 210-217: the except clauses, in order.
Handler(exc) ==
  CASE exc.type = "httpx.TimeoutException" -> Exc("FreeLLMTimeoutError", None, None)
    [] exc.type = "httpx.ConnectError" -> Exc("FreeLLMConnectionError", None, None)
    [] exc.type = "FreeLLMAPIError" -> exc
    [] OTHER -> Exc("FreeLLMAPIError", None, None)

AfterFailure_Retrying(retries, sent) ==
  IF sent <= retries THEN "sending" ELSE "done"

\* Where a call goes after a failed request: every except clause raises.
AfterFailure(retries, sent) == "done"

\* ------------------------------------------------------------------ state
VARIABLES
  messages,      \* ConversationHistory.messages of the client's history
  max_history,   \* ConversationHistory.max_history
  appended,      \* every message appended since construction or the last clear
  max_retries,   \* FreeLLMClient.max_retries
  client,        \* FreeLLMClient._client: 0 is None, else a connection id
  open,          \* connections opened and not yet closed
  opened,        \* number of connections opened so far (the last id)
  sessions,      \* active "async with client" blocks: the connection each opened
  pc,            \* per call slot: "idle" or "sending" (suspended in client.post)
  args,          \* per call in flight: the arguments of chat
  req,           \* per call in flight: payload, connection used, number of posts
  last,          \* the call that ended last: arguments, request, event, result
  started,       \* calls started so far
  adds,          \* direct add_message calls so far
  entered,       \* session entries so far
  history_op,    \* the last direct operation on the history, with its role
  buffers,       \* two clients: the messages list of every history constructed
  _conversation_history,  \* two clients: the history each client holds (0: none)
  acting         \* two clients: the client whose operation ran last (0: none)

\* The state of the specification of two clients.
peers == <<buffers, _conversation_history, acting>>

vars == <<messages, max_history, appended, max_retries, client, open, opened,
          sessions, pc, args, req, last, started, adds, entered, history_op,
          peers>>

Clients == {1, 2}

Calls == 1..MaxSlots

NoArgs == [ctx |-> FALSE, max_tokens |-> None, message |-> <<>>, model |-> None,
           orig |-> <<>>, save |-> FALSE, temperature |-> None]

NoReq == [conn |-> 0, ephemeral |-> FALSE, payload |-> EmptyDict, sent |-> 0]

NoLast == [after |-> <<>>, args |-> NoArgs, before |-> <<>>,
           chat_response |-> EmptyDict, event |-> NoEvent,
           outcome |-> "none", req |-> NoReq, response |-> <<>>,
           response_data |-> None, status_code |-> None]

\* ----------------------------------------------------------------- inputs
Texts == {<<"q">>}

AddTexts == {<<"a">>}

AddRoles == {"user", "system", "tool"}

Obj1(k, v) == [x \in {k} |-> v]

Obj2(k1, v1, k2, v2) == [x \in {k1, k2} |-> IF x = k1 THEN v1 ELSE v2]

JsonBody(obj) == [form |-> "object", obj |-> obj]

TextBody == [form |-> "text", obj |-> EmptyDict]

Response(status, body) == [body |-> body, kind |-> "response", status |-> status]

Failure(kind) == [body |-> NoBody, kind |-> kind, status |-> 0]

Params(model, temperature, max_tokens) ==
  [max_tokens |-> max_tokens, model |-> model, temperature |-> temperature]

\* ------------------------------------------------------------------- Init
InitWith(caps, retries) ==
  /\ messages = <<>>
  /\ max_history \in {n \in caps : ValidMaxHistory(n)}
  /\ appended = <<>>
  /\ max_retries \in retries
  /\ client = 0
  /\ open = {}
  /\ opened = 0
  /\ sessions = <<>>
  /\ pc = [c \in Calls |-> "idle"]
  /\ args = [c \in Calls |-> NoArgs]
  /\ req = [c \in Calls |-> NoReq]
  /\ last = NoLast
  /\ started = 0
  /\ adds = 0
  /\ entered = 0
  /\ history_op = <<>>
  /\ buffers = <<>>
  /\ _conversation_history = [k \in Clients |-> 0]
  /\ acting = 0

\* ------------------------------------- ConversationHistory operations
\* add_message: ChatMessage(...) raises on a role outside allowed_roles,
\* before anything is appended.
AddMessage(role, content) ==
  /\ adds < MaxAdds
  /\ adds' = adds + 1
  /\ history_op' = <<"add_message", role>>
  /\ IF validate_role(role)
     THEN /\ messages' = add_message(messages, max_history, role, content)
          /\ appended' = Append(appended, ChatMessage(role, content))
     ELSE UNCHANGED <<messages, appended>>
  /\ UNCHANGED <<max_history, max_retries, client, open, opened, sessions,
                 pc, args, req, last, started, entered, peers>>

\* clear_history / ConversationHistory.clear
ClearHistory ==
  /\ messages' = clear(messages)
  /\ appended' = <<>>
  /\ history_op' = <<"clear">>
  /\ UNCHANGED <<max_history, max_retries, client, open, opened, sessions,
                 pc, args, req, last, started, adds, entered, peers>>

\* ------------------------------------------- sessions and close()
\* __aenter__: a new AsyncClient is stored in _client, whatever it held.
Enter ==
  /\ Len(sessions) < MaxDepth
  /\ entered < MaxEnters
  /\ entered' = entered + 1
  /\ opened' = opened + 1
  /\ open' = open \cup {opened + 1}
  /\ client' = opened + 1
  /\ sessions' = Append(sessions, opened + 1)
  /\ UNCHANGED <<messages, max_history, appended, max_retries, pc, args, req,
                 last, started, adds, history_op, peers>>

CloseHandle_KeepsHandle ==
  /\ open' = IF client # 0 THEN open \ {client} ELSE open
  /\ client' = client

\* The shared body of __aexit__ and close(): "if self._client: aclose; None".
CloseHandle ==
  /\ open' = IF client # 0 THEN open \ {client} ELSE open
  /\ client' = 0

\* __aexit__, on the normal and on the exceptional exit alike.
Exit ==
  /\ Len(sessions) > 0
  /\ sessions' = SubSeq(sessions, 1, Len(sessions) - 1)
  /\ CloseHandle
  /\ UNCHANGED <<messages, max_history, appended, max_retries, opened, pc,
                 args, req, last, started, adds, entered, history_op, peers>>

Close ==
  /\ CloseHandle
  /\ UNCHANGED <<messages, max_history, appended, max_retries, opened,
                 sessions, pc, args, req, last, started, adds, entered,
                 history_op, peers>>

\* ------------------------------------------------------- client.py: chat
SavedEntries_UserBeforeSend(a, exc, body) ==
  IF ~a.save THEN <<>>
  ELSE IF exc.type = "none"
       THEN <<ChatMessage("user", a.message),
              ChatMessage("assistant", ResponseField(body.obj).jval)>>
       ELSE <<ChatMessage("user", a.message)>>

SavedEntries_AssistantFirst(a, exc, body) ==
  IF exc.type = "none" /\ a.save
  THEN <<ChatMessage("assistant", ResponseField(body.obj).jval),
         ChatMessage("user", a.message)>>
  ELSE <<>>

SavedEntries_AssistantOnly(a, exc, body) ==
  IF exc.type = "none" /\ a.save
  THEN <<ChatMessage("assistant", ResponseField(body.obj).jval)>>
  ELSE <<>>

SavedEntries_IgnoreFlag(a, exc, body) ==
  IF exc.type = "none"
  THEN <<ChatMessage("user", a.message),
         ChatMessage("assistant", ResponseField(body.obj).jval)>>
  ELSE <<>>

\* Lines 203-206: what a call appends to the history.  The user entry is the
\* "message" argument of chat; nothing is appended when the try block raised.
SavedEntries(a, exc, body) ==
  IF exc.type = "none" /\ a.save
  THEN <<ChatMessage("user", a.message),
         ChatMessage("assistant", ResponseField(body.obj).jval)>>
  ELSE <<>>

RECURSIVE AddAll(_, _, _)
AddAll(msgs, cap, entries) ==
  IF Len(entries) = 0 THEN msgs
  ELSE AddAll(add_message(msgs, cap, entries[1].role, entries[1].content),
              cap, Tail(entries))

\* _get_client: an ephemeral connection when _client is None, else _client.
GetClient(a) ==
  IF client = 0
  THEN [conn |-> opened + 1, ephemeral |-> TRUE,
        payload |-> _build_request_data(a), sent |-> 1]
  ELSE [conn |-> client, ephemeral |-> FALSE,
        payload |-> _build_request_data(a), sent |-> 1]

\* Lines 164-181: validation, payload, _get_client, up to the await of post.
\* A validation failure ends the call at once.
ChatBegin(c, a) ==
  /\ pc[c] = "idle"
  /\ started < MaxCalls
  /\ started' = started + 1
  /\ IF ~ChatRequestValid(a)
     THEN /\ last' = [NoLast EXCEPT !.args = a, !.before = messages, !.after = messages,
                                    !.outcome = "FreeLLMValidationError"]
          /\ UNCHANGED <<pc, args, req, open, opened>>
     ELSE /\ pc' = [pc EXCEPT ![c] = "sending"]
          /\ args' = [args EXCEPT ![c] = a]
          /\ req' = [req EXCEPT ![c] = GetClient(a)]
          /\ opened' = IF client = 0 THEN opened + 1 ELSE opened
          /\ open' = IF client = 0 THEN open \cup {opened + 1} ELSE open
          /\ UNCHANGED last
  /\ UNCHANGED <<messages, max_history, appended, max_retries, client,
                 sessions, adds, entered, history_op, peers>>

Chat(c, m, p, save) ==
  ChatBegin(c, [ctx |-> FALSE, max_tokens |-> p.max_tokens, message |-> m,
                model |-> p.model, orig |-> m, save |-> save,
                temperature |-> p.temperature])

FullMessage_NoContext(context, m) == m

FullMessage_AlwaysPrefix(context, m) == context \o <<"\n", "user", ": ">> \o m

\* Lines 241-251: the context is read, the message is augmented and handed
\* to chat as its "message" argument, with save_to_history=True.
FullMessage(context, m) ==
  IF context # <<>> THEN context \o <<"\n", "user", ": ">> \o m ELSE m

ChatWithContext(c, m, p) ==
  ChatBegin(c, [ctx |-> TRUE, max_tokens |-> p.max_tokens,
                message |-> FullMessage(get_context(messages), m),
                model |-> p.model, orig |-> m, save |-> TRUE,
                temperature |-> p.temperature])

\* Lines 181-217: the post returns or raises; the rest of the call runs
\* without suspending, and _get_client closes an ephemeral connection.
ChatEnd(c, ev) ==
  /\ pc[c] = "sending"
  /\ LET exc == Raised(ev)
         got == IF exc.type = "none" THEN Exc("ChatResponse", None, None)
                ELSE Handler(exc)
         next == IF exc.type = "none" THEN "done"
                 ELSE AfterFailure(max_retries, req[c].sent)
         saved == SavedEntries(args[c], exc, ev.body)
     IN IF next = "sending"
        THEN /\ req' = [req EXCEPT ![c].sent = @ + 1]
             /\ UNCHANGED <<pc, args, last, open, messages, appended>>
        ELSE /\ pc' = [pc EXCEPT ![c] = "idle"]
             /\ args' = [args EXCEPT ![c] = NoArgs]
             /\ req' = [req EXCEPT ![c] = NoReq]
             /\ last' = [after |-> AddAll(messages, max_history, saved),
                         args |-> args[c],
                         before |-> messages,
                         chat_response |-> IF exc.type = "none"
                                           THEN _parse_response(ev.body.obj)
                                           ELSE EmptyDict,
                         event |-> ev,
                         outcome |-> got.type,
                         req |-> req[c],
                         response |-> IF exc.type = "none"
                                      THEN ResponseField(ev.body.obj).jval
                                      ELSE <<>>,
                         response_data |-> got.response_data,
                         status_code |-> got.status_code]
             /\ open' = IF req[c].ephemeral THEN open \ {req[c].conn} ELSE open
             /\ messages' = AddAll(messages, max_history, saved)
             /\ appended' = appended \o saved
  /\ UNCHANGED <<max_history, max_retries, client, opened, sessions,
                 started, adds, entered, history_op, peers>>

\* ------------------------------------------------------------ two clients
HistoryRef_Shared(n) == 1

\* "self._conversation_history = ConversationHistory()": the history is a new
\* object, with a new messages list (default_factory=list); n histories
\* exist already.
HistoryRef(n) == n + 1

History(k) == buffers[_conversation_history[k]]

\* FreeLLMClient(...) for client k.
NewClient(k) ==
  /\ _conversation_history[k] = 0
  /\ buffers' = Append(buffers, <<>>)
  /\ _conversation_history' = [_conversation_history EXCEPT ![k] = HistoryRef(Len(buffers))]
  /\ acting' = k
  /\ UNCHANGED <<messages, max_history, appended, max_retries, client, open,
                 opened, sessions, pc, args, req, last, started, adds, entered,
                 history_op>>

\* A whole call of chat on client k, from validation to the reply ev: the
\* history it appends to is the one k holds.
PeerCall(k, a, ev) ==
  /\ _conversation_history[k] # 0
  /\ started < MaxCalls
  /\ started' = started + 1
  /\ acting' = k
  /\ buffers' =
       IF ~ChatRequestValid(a) THEN buffers
       ELSE [buffers EXCEPT ![_conversation_history[k]] =
               AddAll(@, DefaultMaxHistory, SavedEntries(a, Raised(ev), ev.body))]
  /\ UNCHANGED <<messages, max_history, appended, max_retries, client, open,
                 opened, sessions, pc, args, req, last, adds, entered,
                 history_op, _conversation_history>>

PeerChat(k, m, p, save, ev) ==
  PeerCall(k, [ctx |-> FALSE, max_tokens |-> p.max_tokens, message |-> m,
               model |-> p.model, orig |-> m, save |-> save,
               temperature |-> p.temperature], ev)

PeerChatWithContext(k, m, p, ev) ==
  /\ _conversation_history[k] # 0
  /\ PeerCall(k, [ctx |-> TRUE, max_tokens |-> p.max_tokens,
                  message |-> FullMessage(get_context(History(k)), m),
                  model |-> p.model, orig |-> m, save |-> TRUE,
                  temperature |-> p.temperature], ev)

\* clear_history on client k.
PeerClearHistory(k) ==
  /\ _conversation_history[k] # 0
  /\ buffers' = [buffers EXCEPT ![_conversation_history[k]] = clear(@)]
  /\ acting' = k
  /\ UNCHANGED <<messages, max_history, appended, max_retries, client, open,
                 opened, sessions, pc, args, req, last, started, adds, entered,
                 history_op, _conversation_history>>

\* ----------------------------------------------------- the specifications
OkBody == JsonBody(Obj1("response", JStr(<<"r">>)))

CoreEvents ==
  {Failure("timeout"), Response(200, OkBody), Response(200, JsonBody(EmptyDict)),
   Response(500, TextBody)}

CoreArgs == {Params(None, None, None), Params(None, Some(TempMax + 1), None)}

\* The client and its history: direct history operations and calls that may
\* overlap.
Init == InitWith(0..MaxHist, {DefaultMaxRetries})

Next ==
  \/ \E r \in AddRoles, t \in AddTexts : AddMessage(r, t)
  \/ ClearHistory
  \/ \E c \in Calls, m \in Texts, p \in CoreArgs, s \in BOOLEAN : Chat(c, m, p, s)
  \/ \E c \in Calls, m \in Texts, p \in CoreArgs : ChatWithContext(c, m, p)
  \/ \E c \in Calls, ev \in CoreEvents : ChatEnd(c, ev)

Spec == Init /\ [][Next]_vars

\* The connection handle: sessions, close() and calls that may overlap.
InitConn == InitWith({DefaultMaxHistory}, {DefaultMaxRetries})

NextConn ==
  \/ Enter
  \/ Exit
  \/ Close
  \/ \E c \in Calls, m \in Texts, p \in CoreArgs : Chat(c, m, p, FALSE)
  \/ \E c \in Calls, ev \in CoreEvents : ChatEnd(c, ev)

SpecConn == InitConn /\ [][NextConn]_vars

\* The inputs of the wider specifications.
OkBodies == {OkBody, JsonBody(EmptyDict), JsonBody(Obj1("message", JStr(<<"r">>))),
             JsonBody(Obj1("response", JNum(<<"5">>))),
             JsonBody(Obj2("response", JStr(<<"r">>), "extra", JStr(<<"x">>))),
             TextBody, NoBody,
             [form |-> "array", obj |-> EmptyDict]}

ErrBodies == {NoBody, TextBody, JsonBody(Obj1("message", JStr(<<"e">>))),
              [form |-> "array", obj |-> EmptyDict]}

AllEvents ==
  {Failure("timeout"), Failure("connect_error"), Failure("transport_error")}
    \cup {Response(st, b) : st \in {200, ErrorStatus - 1}, b \in OkBodies}
    \cup {Response(st, b) : st \in {ErrorStatus, 500}, b \in ErrBodies}

AllArgs ==
  {Params(m, t, n) :
     m \in {None, Some(<<>>), Some(<<"m">>)},
     t \in {None, Some(TempMin - 1), Some(TempMin), Some(TempMax), Some(TempMax + 1)},
     n \in {None, Some(MinTokens - 1), Some(MinTokens), Some(MinTokens + 1)}}

\* Calls over every kind of network event, for every max_retries.
InitWire == InitWith({DefaultMaxHistory}, 0..MaxRetries)

NextWire ==
  \/ \E c \in Calls, m \in Texts, p \in CoreArgs, s \in BOOLEAN : Chat(c, m, p, s)
  \/ \E c \in Calls, m \in Texts, p \in CoreArgs : ChatWithContext(c, m, p)
  \/ \E c \in Calls, ev \in AllEvents : ChatEnd(c, ev)

SpecWire == InitWire /\ [][NextWire]_vars

\* Calls made one after the other, over every kind of argument.
InitArgs == InitWith({DefaultMaxHistory}, {DefaultMaxRetries})

NextArgs ==
  \/ \E m \in Texts, p \in AllArgs, s \in BOOLEAN : Chat(1, m, p, s)
  \/ \E m \in Texts, p \in AllArgs : ChatWithContext(1, m, p)
  \/ \E ev \in CoreEvents : ChatEnd(1, ev)

SpecArgs == InitArgs /\ [][NextArgs]_vars

\* The history under direct operations and chat_with_context calls that may
\* overlap, each answered by a reply or by a timeout.
HistEvents == {Failure("timeout"), Response(200, OkBody)}

InitHist == InitWith({MaxHist}, {DefaultMaxRetries})

NextHist ==
  \/ \E r \in AddRoles, t \in AddTexts : AddMessage(r, t)
  \/ ClearHistory
  \/ \E c \in Calls, m \in Texts : ChatWithContext(c, m, Params(None, None, None))
  \/ \E c \in Calls, ev \in HistEvents : ChatEnd(c, ev)

SpecHist == InitHist /\ [][NextHist]_vars

\* Calls of one client, each awaited to completion before the next is issued,
\* for every capacity of the history.
InitSeq == InitWith(0..MaxHist, {DefaultMaxRetries})

NextSeq ==
  \/ \E m \in Texts, p \in CoreArgs, s \in BOOLEAN : Chat(1, m, p, s)
  \/ \E m \in Texts, p \in CoreArgs : ChatWithContext(1, m, p)
  \/ \E ev \in CoreEvents : ChatEnd(1, ev)

SpecSeq == InitSeq /\ [][NextSeq]_vars

\* Two clients of one program: construction, calls and clear_history on each.
InitPeers == InitWith({DefaultMaxHistory}, {DefaultMaxRetries})

NextPeers ==
  \/ \E k \in Clients : NewClient(k)
  \/ \E k \in Clients, m \in Texts, p \in CoreArgs, s \in BOOLEAN, ev \in CoreEvents :
        PeerChat(k, m, p, s, ev)
  \/ \E k \in Clients, m \in Texts, p \in CoreArgs, ev \in CoreEvents :
        PeerChatWithContext(k, m, p, ev)
  \/ \E k \in Clients : PeerClearHistory(k)

SpecPeers == InitPeers /\ [][NextPeers]_vars

\* Session entry, session exit, close() and chat calls of one client, one
\* after the other: no operation starts while a call is in flight.
NoCallInFlight == \A c \in Calls : pc[c] = "idle"

InitSessions == InitWith({DefaultMaxHistory}, {DefaultMaxRetries})

NextSessions ==
  \/ NoCallInFlight /\ Enter
  \/ NoCallInFlight /\ Exit
  \/ NoCallInFlight /\ Close
  \/ \E m \in Texts, p \in CoreArgs : Chat(1, m, p, FALSE)
  \/ \E ev \in CoreEvents : ChatEnd(1, ev)

SpecSessions == InitSessions /\ [][NextSessions]_vars

\* ------------------------------------------------------------- properties
Failures == {"FreeLLMValidationError", "FreeLLMTimeoutError",
             "FreeLLMConnectionError", "FreeLLMAPIError"}

Min(a, b) == IF a < b THEN a ELSE b

LastN(s, n) == SubSeq(s, Len(s) - n + 1, Len(s))

\* A step that ends a call: a suspended call resumes and finishes, or a call
\* fails validation as it starts.
CallEnds ==
  \/ \E c \in Calls : pc[c] = "sending" /\ pc'[c] = "idle"
  \/ started' = started + 1 /\ pc' = pc

\* C1: after every operation the number of retained messages is at most
\* max_history.
C1_LengthWithinMaxHistory == Len(messages) <= max_history

\* C2: the retained messages are exactly the last min(len(s), max_history)
\* of the messages s appended since the history was empty, in order, and
\* get_context() renders exactly those.
C2_KeepsMostRecent ==
  LET kept == LastN(appended, Min(Len(appended), max_history))
  IN /\ messages = kept
     /\ get_context(messages) = JoinLines(kept)

\* C3: a successful chat_with_context(m) with reply r appends the original
\* message m as a user entry and then r as an assistant entry.
C3_SavesOriginalMessage ==
  (last.outcome = "ChatResponse" /\ last.args.ctx) =>
     last.after = AddAll(last.before, max_history,
                         <<ChatMessage("user", last.args.orig),
                           ChatMessage("assistant", last.response)>>)

\* C4: no step of a call that ends in a failure changes the history: neither
\* the step that starts a call nor a step that ends one with an error.
C4_FailureKeepsHistory ==
  [][(started' # started \/ (CallEnds /\ last'.outcome \in Failures))
       => messages' = messages]_vars

C4_Witness ==
  /\ last.outcome = "FreeLLMAPIError"
  /\ last.event.kind = "response"
  /\ last.args.save
  /\ last.req.sent = 1
  /\ messages # <<>>
  /\ messages = last.before

\* C5: a response with status >= 400 ends the call with an APIError that
\* carries that status, and the parsed body when the body is JSON.
C5_ErrorStatusCarried ==
  (last.event.kind = "response" /\ last.event.status >= 400) =>
     /\ last.outcome = "FreeLLMAPIError"
     /\ last.status_code = Some(last.event.status)
     /\ (JsonParseable(last.event.body) => last.response_data = Some(last.event.body))

\* C6: a call that ended has exactly one outcome, a ChatResponse or an error of
\* the FreeLLMError family, decided by what happened: ValidationError without
\* any network event, TimeoutError on a timeout, ConnectionError on a
\* connection failure, APIError on an error status or any other failure; and
\* a suspended call can always end.
C6_OneOutcomeOfTheFamily ==
  /\ last.outcome # "none" =>
       /\ last.outcome \in Failures \cup {"ChatResponse"}
       /\ (last.event.kind = "none") = (last.outcome = "FreeLLMValidationError")
       /\ (last.event.kind = "timeout") = (last.outcome = "FreeLLMTimeoutError")
       /\ (last.event.kind = "connect_error") = (last.outcome = "FreeLLMConnectionError")
       /\ last.event.kind = "transport_error" => last.outcome = "FreeLLMAPIError"
       /\ (last.event.kind = "response" /\ last.event.status >= 400)
            => last.outcome = "FreeLLMAPIError"
       /\ last.outcome = "ChatResponse"
            => (last.event.kind = "response" /\ last.event.status < 400)
  /\ \A c \in Calls : pc[c] = "sending" => ENABLED (\E ev \in AllEvents : ChatEnd(c, ev))

C6_Witness ==
  /\ last.outcome = "FreeLLMAPIError"
  /\ last.event.kind = "response"
  /\ last.event.status = 200
  /\ last.event.body.form = "text"

\* C7: a call starts by failing with ValidationError, without opening a
\* connection or sending anything, exactly when its temperature is outside
\* [0.0, 2.0] or its max_tokens is not positive; otherwise it goes on to send.
StartedArgs ==
  IF pc' = pc THEN last'.args
  ELSE args'[CHOOSE c \in Calls : pc'[c] # pc[c]]

BadParameters(a) ==
  \/ ~IsNone(a.temperature) /\ (Val(a.temperature) < 0 \/ Val(a.temperature) > 20)
  \/ ~IsNone(a.max_tokens) /\ Val(a.max_tokens) <= 0

C7_ValidationBeforeNetwork ==
  [][started' = started + 1 =>
       IF BadParameters(StartedArgs)
       THEN /\ pc' = pc
            /\ last'.outcome = "FreeLLMValidationError"
            /\ last'.req.sent = 0
            /\ opened' = opened
            /\ open' = open
       ELSE \E c \in Calls : /\ pc'[c] = "sending"
                             /\ pc[c] = "idle"
                             /\ req'[c].sent = 1
                             /\ req'[c].conn \in open']_vars

C7_Witness ==
  /\ last.outcome = "FreeLLMValidationError"
  /\ last.args.temperature = Some(TempMax + 1)
  /\ last.req.conn = 0
  /\ started = 2
  /\ opened = 1
  /\ \E c \in Calls : pc[c] = "sending" /\ args[c].temperature = Some(TempMax)

\* C8: once no session is active and no call is in flight, no connection
\* opened by the client is still open.
C8_NoConnectionLeft ==
  (Len(sessions) = 0 /\ \A c \in Calls : pc[c] = "idle") => open = {}

\* C9: a call posts exactly once, whatever max_retries is: a suspended call
\* has sent one request, and a call that ended sent at most one.
C9_AtMostOneRequest ==
  /\ \A c \in Calls : pc[c] = "sending" => req[c].sent = 1
  /\ last.req.sent <= 1
  /\ last.outcome \in Failures \ {"FreeLLMValidationError"} => last.req.sent = 1

C9_Witness ==
  /\ last.outcome = "FreeLLMTimeoutError"
  /\ last.req.sent = 1
  /\ max_retries >= 1
  /\ \A c \in Calls : pc[c] = "idle"

\* C10: the payload has the key message, and each of model, temperature and
\* max_tokens exactly when the caller supplied it, and no other key.
C10_PayloadKeysAsSupplied ==
  \A c \in Calls : pc[c] = "sending" =>
     DOMAIN req[c].payload =
        {"message"}
          \cup (IF IsNone(args[c].model) THEN {} ELSE {"model"})
          \cup (IF IsNone(args[c].temperature) THEN {} ELSE {"temperature"})
          \cup (IF IsNone(args[c].max_tokens) THEN {} ELSE {"max_tokens"})

\* C11: every JSON object answered with a non-error status is parsed into a
\* ChatResponse, never an error, and its response text is the value under
\* "response" if that key is present, else the value under "message" if
\* present, else the string form of the whole object.
ExpectedText(obj) ==
  IF "response" \in DOMAIN obj THEN obj["response"]
  ELSE IF "message" \in DOMAIN obj THEN obj["message"]
  ELSE JStr(PyStr(obj))

C11_ObjectAlwaysParsed ==
  (/\ last.event.kind = "response"
   /\ last.event.status < 400
   /\ last.event.body.form = "object")
    => /\ last.outcome = "ChatResponse"
       /\ last.chat_response["response"] = Some(ExpectedText(last.event.body.obj))
       /\ last.response = ExpectedText(last.event.body.obj).jval

\* C12: every field of the response object whose key is not response, model,
\* usage or metadata is a field of the ChatResponse that chat returns, with
\* the same value.
C12_UnknownFieldsKept ==
  last.outcome = "ChatResponse" =>
     \A k \in DOMAIN last.event.body.obj \ {"response", "model", "usage", "metadata"} :
        /\ k \in DOMAIN last.chat_response
        /\ last.chat_response[k] = Some(last.event.body.obj[k])

\* C13: chat_with_context(m) sends exactly m when the history is empty, and
\* exactly C + "\nuser: " + m when it is not, C being get_context() at the
\* time of the call.
C13_OutgoingMessage ==
  [][\A c \in Calls :
       (pc[c] = "idle" /\ pc'[c] = "sending" /\ args'[c].ctx) =>
          req'[c].payload["message"] =
             IF Len(messages) = 0 THEN args'[c].orig
             ELSE JoinLines(messages) \o <<"\n", "user", ": ">> \o args'[c].orig]_vars

C13_Witness ==
  \E c \in Calls :
     /\ pc[c] = "sending"
     /\ args[c].ctx
     /\ Len(messages) = 2
     /\ req[c].payload["message"] =
          <<messages[1].role, ": ">> \o messages[1].content \o <<"\n">>
            \o <<messages[2].role, ": ">> \o messages[2].content
            \o <<"\n", "user", ": ">> \o args[c].orig
     /\ \E d \in Calls : /\ pc[d] = "sending"
                          /\ args[d].ctx
                          /\ req[d].payload["message"] = args[d].orig

\* C14: a chat call with save_to_history false never changes the history,
\* neither when it starts nor when it ends, whatever its outcome.
C14_NoSaveKeepsHistory ==
  [][/\ started' = started + 1 => messages' = messages
     /\ \A c \in Calls :
          (pc[c] = "sending" /\ pc'[c] = "idle" /\ ~args[c].save)
             => messages' = messages]_vars

C14_Witness ==
  /\ last.outcome = "ChatResponse"
  /\ ~last.args.save
  /\ last.before # <<>>
  /\ last.after = last.before
  /\ messages = last.before

\* C15: when calls are awaited one after the other, the outgoing message of a
\* chat_with_context call is built from the history left by the call that
\* completed before it: the history that call found, followed by its turn
\* (the message it sent and the reply) when it succeeded and saved, cut to
\* the max_history window.
HistoryAfterLast ==
  IF last.outcome = "ChatResponse" /\ last.args.save
  THEN AddAll(last.before, max_history,
              <<ChatMessage("user", last.args.message),
                ChatMessage("assistant", last.response)>>)
  ELSE last.before

C15_SeesCompletedCalls ==
  [][\A c \in Calls :
       (pc[c] = "idle" /\ pc'[c] = "sending" /\ args'[c].ctx) =>
          req'[c].payload["message"] =
             IF HistoryAfterLast = <<>> THEN args'[c].orig
             ELSE JoinLines(HistoryAfterLast) \o <<"\n", "user", ": ">> \o args'[c].orig]_vars

C15_Witness ==
  /\ started = 2
  /\ max_history = 2
  /\ last.outcome = "ChatResponse"
  /\ last.args.ctx
  /\ last.response = <<"r">>
  /\ pc[1] = "sending"
  /\ args[1].ctx
  /\ req[1].payload["message"] =
       <<"user", ": ", "q", "\n", "assistant", ": ", "r", "\n", "user", ": ", "q">>

\* C16: clear() leaves the history with no message and max_history as it
\* was, from any state, and get_context() then returns the empty text.
ClearStep == adds' = adds /\ started' = started /\ pc' = pc

C16_ClearEmpties ==
  [][ClearStep => /\ history_op' = <<"clear">>
                  /\ messages' = <<>>
                  /\ max_history' = max_history
                  /\ get_context(messages') = <<>>]_vars

C16_Witness ==
  /\ history_op = <<"clear">>
  /\ messages = <<>>
  /\ max_history = MaxHist
  /\ last.outcome = "ChatResponse"
  /\ Len(last.after) = 2
  /\ \A c \in Calls : pc[c] = "idle"

\* C17: when a chat_with_context call is issued while another is suspended in
\* its round trip, issuing it changes no history, its outgoing message is
\* built from the history as it stands, without the turn of the suspended
\* call (the same message as the suspended call's when the history is still
\* the one that call read), and a turn is appended only by the step in
\* which its own reply arrives.
Rendered(msgs, m) ==
  IF Len(msgs) = 0 THEN m ELSE JoinLines(msgs) \o <<"\n", "user", ": ">> \o m

C17_OverlappingCallsShareSnapshot ==
  [][/\ \A c1, c2 \in Calls :
          (/\ c1 # c2
           /\ pc[c1] = "sending" /\ args[c1].ctx
           /\ pc[c2] = "idle" /\ pc'[c2] = "sending" /\ args'[c2].ctx)
            => /\ messages' = messages
               /\ req'[c2].payload["message"] = Rendered(messages, args'[c2].orig)
               /\ (/\ args[c1].message = Rendered(messages, args[c1].orig)
                   /\ args'[c2].orig = args[c1].orig)
                    => req'[c2].payload["message"] = req[c1].payload["message"]
     /\ \A c \in Calls :
          (pc[c] = "sending" /\ pc'[c] = "idle") =>
             messages' =
                IF last'.outcome = "ChatResponse" /\ args[c].save
                THEN AddAll(messages, max_history,
                            <<ChatMessage("user", args[c].message),
                              ChatMessage("assistant", last'.response)>>)
                ELSE messages]_vars

C17_Witness ==
  /\ last.outcome = "ChatResponse"
  /\ last.args.ctx
  /\ last.before # <<>>
  /\ messages = last.after
  /\ last.after # last.before
  /\ \E c \in Calls :
        /\ pc[c] = "sending"
        /\ args[c].ctx
        /\ req[c].payload["message"] = last.req.payload["message"]
        /\ req[c].payload["message"] = Rendered(last.before, args[c].orig)

\* C18: add_message with a role outside {user, assistant, system} leaves the
\* history unchanged, and in every reachable state every retained message has
\* one of these three roles.
C18_RolesOfTheEnum ==
  /\ [](\A i \in DOMAIN messages : messages[i].role \in {"user", "assistant", "system"})
  /\ [][(adds' = adds + 1 /\ history_op'[2] \notin {"user", "assistant", "system"})
          => (messages' = messages /\ appended' = appended)]_vars

C18_Witness ==
  /\ history_op = <<"add_message", "tool">>
  /\ adds = 2
  /\ started = 0
  /\ Len(messages) = 1
  /\ messages[1].role = "system"

\* C19: the two clients hold distinct histories, each empty when its client
\* is constructed, and no operation of one client changes the history of the
\* other.
C19_HistoriesApart ==
  /\ [](\A j, k \in Clients :
          (j # k /\ _conversation_history[j] # 0)
             => _conversation_history[j] # _conversation_history[k])
  /\ [][\A k \in Clients :
          (_conversation_history[k] = 0 /\ _conversation_history'[k] # 0)
             => buffers'[_conversation_history'[k]] = <<>>]_vars
  /\ [][\A k \in Clients :
          (acting' # k /\ _conversation_history[k] # 0)
             => /\ _conversation_history'[k] = _conversation_history[k]
                /\ buffers'[_conversation_history'[k]] = buffers[_conversation_history[k]]]_vars

C19_Witness ==
  /\ _conversation_history[1] # 0
  /\ _conversation_history[2] # 0
  /\ acting = 2
  /\ started = 2
  /\ Len(History(1)) = 2
  /\ Len(History(2)) = 2
  /\ History(1) # History(2)

\* C20: the max_history of a history is a positive integer in every state: no
\* history with max_history <= 0 is ever constructed.
C20_MaxHistoryPositive == max_history > 0

\* C21: under any interleaving of overlapping calls that save, the user entry
\* and the assistant entry of a turn are appended in one step, next to each
\* other: the appended entries are a sequence of (user, assistant) pairs, and
\* the step that ends a saving call with a reply appends exactly its pair.
C21_TurnAppendedWhole ==
  /\ [](/\ Len(appended) % 2 = 0
        /\ \A i \in DOMAIN appended :
             appended[i].role = IF i % 2 = 1 THEN "user" ELSE "assistant")
  /\ [][\A c \in Calls :
          (pc[c] = "sending" /\ pc'[c] = "idle")
             => appended' =
                  IF last'.outcome = "ChatResponse" /\ args[c].save
                  THEN appended \o <<ChatMessage("user", args[c].message),
                                     ChatMessage("assistant", last'.response)>>
                  ELSE appended]_vars

C21_Witness ==
  /\ last.outcome = "ChatResponse"
  /\ last.args.ctx
  /\ last.args.message = last.args.orig
  /\ Len(last.before) = 2
  /\ Len(messages) = 4
  /\ messages = appended
  /\ messages[3] = ChatMessage("user", last.args.message)
  /\ messages[4] = ChatMessage("assistant", last.response)

\* C22: with session entry, session exit, close() and chat calls made one
\* after the other, in any order, a call never sends on a closed connection;
\* session exit and close() leave the handle absent, and the next call then
\* opens a fresh ephemeral connection; close() without a connection changes
\* nothing.
ExitOrCloseStep == started' = started /\ pc' = pc /\ entered' = entered

C22_NeverSendsOnClosed ==
  /\ [](/\ \A c \in Calls : pc[c] = "sending" => req[c].conn \in open
        /\ client # 0 => client \in open
        /\ client = 0 => ~ENABLED <<Close>>_vars)
  /\ [][ExitOrCloseStep => client' = 0 /\ client \notin open']_vars
  /\ [][\A c \in Calls :
          (pc[c] = "idle" /\ pc'[c] = "sending" /\ client = 0)
             => /\ req'[c].ephemeral
                /\ req'[c].conn > opened
                /\ req'[c].conn \in open']_vars

C22_Witness ==
  /\ entered = 1
  /\ Len(sessions) = 0
  /\ client = 0
  /\ pc[1] = "sending"
  /\ req[1].ephemeral
  /\ req[1].conn = 2
  /\ open = {2}

====
